---------------------------- MODULE Spec2Model ----------------------------
(* A model of two command-line scripts of the design-system               *)
(* repository: scripts/audits/audit-documentation.py (the documentation   *)
(* coverage auditor, modelled step by step) and validate-css.py (the       *)
(* structural validator).                                                  *)
(*                                                                         *)
(* Text is kept as text: a CSS class name, a section id and the content of *)
(* the validated file are TLA+ strings, and prefix tests, substring tests, *)
(* split('-'), count() and sorted() are computed character by character.   *)
(* A CSS file is the sequence of its rules `.NAME {`, each given by NAME;  *)
(* an HTML file is the sequence of its elements `<TAG id="ID">`.           *)
EXTENDS Integers, Sequences, FiniteSets, TLC

VARIABLES
    argv,               \* sys.argv of audit-documentation
    css_exists,         \* os.path.exists(css_file_path)
    html_exists,        \* os.path.exists(html_file_path)
    css_readable,       \* open()/read() of the CSS file succeeds
    html_readable,      \* open()/read() of the HTML file succeeds
    pc,                 \* position of main() of audit-documentation
    css_content,        \* audit_documentation: css_content
    html_content,       \* audit_documentation: html_content
    audit,              \* values computed by audit_documentation
    syscalls,           \* file-system operations main() has performed
    out,                \* lines printed to standard output
    exit_code,          \* process exit status, NoExit while running
    v_pc,               \* position of validate-css.py
    v_exists,           \* validate-css: the file can be opened
    v_content,          \* validate-css: css_content
    v_issues,           \* validate-css: issues
    v_result,           \* validate-css: value returned by validate_css
    v_exit              \* validate-css: process exit status

vars == << argv, css_exists, html_exists, css_readable, html_readable, pc,
           css_content, html_content, audit, syscalls, out, exit_code,
           v_pc, v_exists, v_content, v_issues, v_result, v_exit >>

auditVars == << argv, css_exists, html_exists, css_readable, html_readable,
                pc, css_content, html_content, audit, syscalls, out,
                exit_code >>

validateVars == << v_pc, v_exists, v_content, v_issues, v_result, v_exit >>

-----------------------------------------------------------------------------
(* Bounds of the model.                                                    *)

\* CSS rules plus HTML elements in the two files of one run.
MaxElems == 4

\* Lines in the file given to validate-css.
MaxLines == 3

NoExit == "running"

-----------------------------------------------------------------------------
(* Text primitives of Python's str, computed on the characters.            *)

\* The characters the names of the model use, in code-point order.
CharOrder == "-0123456789_abcdefghijklmnopqrstuvwxyz"

Char(s, i) == SubSeq(s, i, i)

\* The characters of CharOrder, as a set.
WordChars == { Char(CharOrder, i) : i \in 1..Len(CharOrder) }

\* Rank of each character in code-point order.
OrdTable ==
    [ c \in WordChars |-> CHOOSE i \in 1..Len(CharOrder) : Char(CharOrder, i) = c ]

Ord(c) == OrdTable[c]

\* str.startswith
StartsWith(s, p) == Len(p) <= Len(s) /\ SubSeq(s, 1, Len(p)) = p

\* `sub in s` for strings
Contains(sub, s) ==
    \E i \in 1..(Len(s) - Len(sub) + 1) : SubSeq(s, i, i + Len(sub) - 1) = sub

\* `x in list`
InList(x, list) == \E i \in 1..Len(list) : list[i] = x

\* a < b for strings: lexicographic on code points
RECURSIVE StrLess(_, _)
StrLess(a, b) ==
    IF Len(b) = 0 THEN FALSE
    ELSE IF Len(a) = 0 THEN TRUE
    ELSE IF Char(a, 1) = Char(b, 1) THEN StrLess(Tail(a), Tail(b))
    ELSE Ord(Char(a, 1)) < Ord(Char(b, 1))

\* Position of the first `sep` in s at or after i, 0 when there is none.
RECURSIVE FindChar(_, _, _)
FindChar(s, sep, i) ==
    IF i > Len(s) THEN 0
    ELSE IF Char(s, i) = sep THEN i
    ELSE FindChar(s, sep, i + 1)

\* str.split(sep) for a one-character separator
RECURSIVE Split(_, _)
Split(s, sep) ==
    LET k == FindChar(s, sep, 1) IN
    IF k = 0 THEN << s >>
    ELSE << SubSeq(s, 1, k - 1) >> \o Split(SubSeq(s, k + 1, Len(s)), sep)

\* Insertion of x into a sorted list, after the elements that are <= x.
RECURSIVE InsertSorted(_, _)
InsertSorted(x, list) ==
    IF Len(list) = 0 THEN << x >>
    ELSE IF StrLess(x, Head(list)) THEN << x >> \o list
    ELSE << Head(list) >> \o InsertSorted(x, Tail(list))

\* sorted(list) for a list of strings
RECURSIVE Sorted(_)
Sorted(list) ==
    IF Len(list) = 0 THEN << >>
    ELSE InsertSorted(list[Len(list)], Sorted(SubSeq(list, 1, Len(list) - 1)))

\* list(set(list)): the distinct elements, here in order of first occurrence
RECURSIVE Distinct(_)
Distinct(list) ==
    IF Len(list) = 0 THEN << >>
    ELSE LET rest == Distinct(SubSeq(list, 1, Len(list) - 1))
             x == list[Len(list)]
         IN IF InList(x, rest) THEN rest ELSE Append(rest, x)

-----------------------------------------------------------------------------
(* audit-documentation.py: extraction of component names.                  *)

\* The alternation of component_pattern.
ComponentPrefixes ==
    << "btn", "card", "modal", "token", "badge", "form", "collection",
       "empty-state", "progress", "profile", "guideline", "table", "nav",
       "hero", "footer" >>

\* [\w-] on the characters of the model
IsWordOrHyphen(c) == c \in WordChars

\* component_pattern applied to the rule `.NAME {`: a prefix of the
\* alternation, then [\w-]* up to the white space before the brace.
component_pattern(name) ==
    \E i \in 1..Len(ComponentPrefixes) :
        /\ StartsWith(name, ComponentPrefixes[i])
        /\ \A k \in (Len(ComponentPrefixes[i]) + 1)..Len(name) :
               IsWordOrHyphen(Char(name, k))

important_variants ==
    { "btn-primary", "btn-secondary", "btn-tertiary", "btn-icon",
      "btn-sm", "btn-md", "btn-lg", "btn-inline",
      "card-showcase",
      "badge-showcase", "badge-group",
      "table-responsive",
      "modal-dialog", "modal-content",
      "form-group", "form-control",
      "progress-bar", "progress-container" }

\* The list tested at the elif of the filter loop.
secondary_bases == { "empty-state", "profile-card" }

\* The first loop: group(1) of every match, without repetitions.
RECURSIVE MatchedComponents(_)
MatchedComponents(css) ==
    IF Len(css) = 0 THEN << >>
    ELSE LET components == MatchedComponents(SubSeq(css, 1, Len(css) - 1))
             component_name == css[Len(css)]
         IN IF component_pattern(component_name)
                  /\ ~InList(component_name, components)
            THEN Append(components, component_name)
            ELSE components

\* KeepComponent without the filter: every matched name is kept.
KeepComponent_KeepAll(component) == TRUE

\* The body of the filter loop for one component.
KeepComponent(component) ==
    LET parts == Split(component, "-")
        base == parts[1]
    IN IF Len(parts) = 1 THEN TRUE
       ELSE IF component \in important_variants THEN TRUE
       ELSE base \in secondary_bases /\ Len(parts) = 2

FilteredComponents(components) ==
    SelectSeq(components, LAMBDA c : KeepComponent(c))

\* extract_semantic_components without the removal of repeated names.
extract_semantic_components_NoDedup(css) ==
    Sorted(FilteredComponents(SelectSeq(css, LAMBDA c : component_pattern(c))))

extract_semantic_components(css) ==
    Sorted(Distinct(FilteredComponents(MatchedComponents(css))))

-----------------------------------------------------------------------------
(* audit-documentation.py: extraction of section ids.                      *)

BlockedSubstrings == << "sidebar", "overview", "paint0", "clip0", "hero_logo" >>

\* section_pattern applied to the element `<TAG id="ID">`
section_pattern(el) == el.tag \in { "div", "section" } /\ Len(el.id) > 0

SectionKept(section_id) ==
    ~ \E i \in 1..Len(BlockedSubstrings) :
          Contains(BlockedSubstrings[i], section_id)

RECURSIVE MatchedSections(_)
MatchedSections(html) ==
    IF Len(html) = 0 THEN << >>
    ELSE LET sections == MatchedSections(SubSeq(html, 1, Len(html) - 1))
             el == html[Len(html)]
         IN IF section_pattern(el) /\ SectionKept(el.id)
            THEN Append(sections, el.id)
            ELSE sections

\* extract_documentation_sections returning the ids in document order.
extract_documentation_sections_Unsorted(html) == MatchedSections(html)

extract_documentation_sections(html) == Sorted(MatchedSections(html))

-----------------------------------------------------------------------------
(* audit-documentation.py: the mapping of components to sections.          *)

pluralization_map ==
    [ b \in { "btn", "card", "modal", "form", "table", "badge", "nav",
              "footer", "hero" } |->
        CASE b = "btn" -> "buttons"
          [] b = "card" -> "cards"
          [] b = "modal" -> "modals"
          [] b = "form" -> "forms"
          [] b = "table" -> "tables"
          [] b = "badge" -> "badges"
          [] b = "nav" -> "navigation"
          [] b = "footer" -> "footers"
          [] b = "hero" -> "heroes" ]

\* potential_sections with the component's own name tried first.
potential_sections_NameFirst(component) ==
    LET base_component == Split(component, "-")[1]
    IN << component >>
       \o (IF base_component \in DOMAIN pluralization_map
           THEN << pluralization_map[base_component] >>
           ELSE << >>)
       \o << base_component >>

\* potential_sections of one component, in the order they are appended
potential_sections(component) ==
    LET base_component == Split(component, "-")[1]
    IN (IF base_component \in DOMAIN pluralization_map
        THEN << pluralization_map[base_component] >>
        ELSE << >>)
       \o << base_component >> \o << component >>

\* The inner loop: index of the first potential section that is a section,
\* 0 when the loop ends without a break.
RECURSIVE FirstMatching(_, _, _)
FirstMatching(potential, sections, i) ==
    IF i > Len(potential) THEN 0
    ELSE IF InList(potential[i], sections) THEN i
    ELSE FirstMatching(potential, sections, i + 1)

\* dict[k] = v
DictSet(d, k, v) ==
    [ x \in (DOMAIN d) \cup { k } |-> IF x = k THEN v ELSE d[x] ]

EmptyDict == [ x \in {} |-> "" ]

\* MappingLoop recording in section_to_component only the first component
\* mapped to a section.
RECURSIVE MappingLoop_KeepFirst(_, _, _)
MappingLoop_KeepFirst(components, sections, n) ==
    IF n = 0
    THEN [ component_to_section |-> EmptyDict,
           section_to_component |-> EmptyDict ]
    ELSE LET before == MappingLoop_KeepFirst(components, sections, n - 1)
             component == components[n]
             potential == potential_sections(component)
             k == FirstMatching(potential, sections, 1)
         IN IF k = 0 THEN before
            ELSE [ component_to_section |->
                       DictSet(before.component_to_section, component,
                               potential[k]),
                   section_to_component |->
                       IF potential[k] \in DOMAIN before.section_to_component
                       THEN before.section_to_component
                       ELSE DictSet(before.section_to_component,
                                    potential[k], component) ]

\* The outer loop over components[1..n]; the two dicts after it.
RECURSIVE MappingLoop(_, _, _)
MappingLoop(components, sections, n) ==
    IF n = 0
    THEN [ component_to_section |-> EmptyDict,
           section_to_component |-> EmptyDict ]
    ELSE LET before == MappingLoop(components, sections, n - 1)
             component == components[n]
             potential == potential_sections(component)
             k == FirstMatching(potential, sections, 1)
         IN IF k = 0 THEN before
            ELSE [ component_to_section |->
                       DictSet(before.component_to_section, component,
                               potential[k]),
                   section_to_component |->
                       DictSet(before.section_to_component, potential[k],
                               component) ]

create_semantic_mapping(components, sections) ==
    MappingLoop(components, sections, Len(components))

-----------------------------------------------------------------------------
(* audit-documentation.py: audit_documentation after the two reads.        *)

\* StalePrefixes with the entry for modals left out.
StalePrefixes_NoModal ==
    << "btn", "card", "token", "badge", "form", "table", "nav", "footer" >>

\* The prefixes of the component-like test of the stale-section loop.
StalePrefixes ==
    << "btn", "card", "modal", "token", "badge", "form", "table", "nav",
       "footer" >>

ComponentLike(section) ==
    \E i \in 1..Len(StalePrefixes) :
        \/ StartsWith(section, StalePrefixes[i])
        \/ Contains(StalePrefixes[i], section)

\* set(component_to_section.values())
DictValues(d) == { d[k] : k \in DOMAIN d }

audit_documentation(css, html) ==
    LET components == extract_semantic_components(css)
        sections == extract_documentation_sections(html)
        mapping == create_semantic_mapping(components, sections)
        component_to_section == mapping.component_to_section
        undocumented ==
            SelectSeq(components,
                      LAMBDA c : c \notin DOMAIN component_to_section)
        documented_sections == DictValues(component_to_section)
        component_like_sections ==
            SelectSeq(sections, LAMBDA s : ComponentLike(s))
        stale_sections ==
            SelectSeq(component_like_sections,
                      LAMBDA s : s \notin documented_sections)
    IN [ components |-> components,
         sections |-> sections,
         component_to_section |-> component_to_section,
         section_to_component |-> mapping.section_to_component,
         undocumented |-> undocumented,
         stale_sections |-> stale_sections,
         component_count |-> Len(components),
         section_count |-> Len(sections) ]

-----------------------------------------------------------------------------
(* The inputs of a run of audit-documentation.                             *)

\* Class names of the rules a CSS file is made of.
CssNames ==
    { "btn", "btn-primary", "card-internal-detail", "modal", "modal-dialog",
      "progress-bar", "empty-state", "flex" }

\* Ids of the elements an HTML file is made of.
SectionIds ==
    { "buttons", "modal", "modal-dialog", "progress-bar", "hero-banner",
      "sidebar-nav" }

\* Elements an HTML file is made of.
HtmlElems ==
    { [ tag |-> "div", id |-> i ] : i \in SectionIds }
        \cup { [ tag |-> "section", id |-> "modals" ],
               [ tag |-> "span", id |-> "buttons" ] }

SeqsUpTo(S, n) == UNION { [ 1..k -> S ] : k \in 0..n }

ProgName == "audit-documentation.py"
CssPath == "design-system.css"
HtmlPath == "design-system.html"

ArgvChoices ==
    { << ProgName >>, << ProgName, CssPath >>,
      << ProgName, CssPath, HtmlPath >>,
      << ProgName, CssPath, HtmlPath, "extra" >> }

Line(kind, text, n) == [ kind |-> kind, text |-> text, n |-> n ]

NoAudit ==
    [ components |-> << >>, sections |-> << >>,
      component_to_section |-> EmptyDict, section_to_component |-> EmptyDict,
      undocumented |-> << >>, stale_sections |-> << >>,
      component_count |-> 0, section_count |-> 0 ]

-----------------------------------------------------------------------------
(* main() of audit-documentation.py, one action per step.                  *)

AuditInit ==
    /\ argv \in ArgvChoices
    /\ css_exists \in BOOLEAN
    /\ html_exists \in BOOLEAN
    /\ css_readable \in BOOLEAN
    /\ html_readable \in BOOLEAN
    /\ (~css_exists => ~css_readable)
    /\ (~html_exists => ~html_readable)
    /\ pc = "check_args"
    /\ css_content = << >>
    /\ html_content = << >>
    /\ audit = NoAudit
    /\ syscalls = << >>
    /\ out = << >>
    /\ exit_code = NoExit

ValidateIdle ==
    /\ v_pc = "idle"
    /\ v_exists = FALSE
    /\ v_content = ""
    /\ v_issues = << >>
    /\ v_result = FALSE
    /\ v_exit = NoExit

\* sys.exit(1) after printing one line
Fail(line) ==
    /\ out' = Append(out, line)
    /\ exit_code' = 1
    /\ pc' = "exit"

\* if len(sys.argv) != 3
CheckArgs ==
    /\ pc = "check_args"
    /\ IF Len(argv) # 3
       THEN Fail(Line("usage", "", 0))
       ELSE /\ pc' = "check_css"
            /\ UNCHANGED << out, exit_code >>
    /\ UNCHANGED << argv, css_exists, html_exists, css_readable,
                    html_readable, css_content, html_content, audit,
                    syscalls, validateVars >>

\* CheckCssExists reporting a missing CSS file without leaving main().
CheckCssExists_NoExit ==
    /\ pc = "check_css"
    /\ syscalls' = Append(syscalls, << "exists", argv[2] >>)
    /\ out' = IF ~css_exists
              THEN Append(out, Line("css_not_found", argv[2], 0))
              ELSE out
    /\ pc' = "check_html"
    /\ UNCHANGED << argv, css_exists, html_exists, css_readable,
                    html_readable, css_content, html_content, audit,
                    exit_code, validateVars >>

\* if not os.path.exists(css_file_path)
CheckCssExists ==
    /\ pc = "check_css"
    /\ syscalls' = Append(syscalls, << "exists", argv[2] >>)
    /\ IF ~css_exists
       THEN Fail(Line("css_not_found", argv[2], 0))
       ELSE /\ pc' = "check_html"
            /\ UNCHANGED << out, exit_code >>
    /\ UNCHANGED << argv, css_exists, html_exists, css_readable,
                    html_readable, css_content, html_content, audit,
                    validateVars >>

\* if not os.path.exists(html_file_path), then the three header lines
CheckHtmlExists ==
    /\ pc = "check_html"
    /\ syscalls' = Append(syscalls, << "exists", argv[3] >>)
    /\ IF ~html_exists
       THEN Fail(Line("html_not_found", argv[3], 0))
       ELSE /\ pc' = "read_css"
            /\ out' = out \o << Line("auditing", "", 0),
                                Line("css_path", argv[2], 0),
                                Line("html_path", argv[3], 0) >>
            /\ UNCHANGED exit_code
    /\ UNCHANGED << argv, css_exists, html_exists, css_readable,
                    html_readable, css_content, html_content, audit,
                    validateVars >>

\* audit_documentation: the read of the CSS file
ReadCss ==
    /\ pc = "read_css"
    /\ syscalls' = Append(syscalls, << "open", argv[2] >>)
    /\ IF ~css_readable
       THEN /\ Fail(Line("css_read_error", "", 0))
            /\ UNCHANGED css_content
       ELSE /\ \E content \in SeqsUpTo(CssNames, MaxElems) :
                   css_content' = content
            /\ pc' = "read_html"
            /\ UNCHANGED << out, exit_code >>
    /\ UNCHANGED << argv, css_exists, html_exists, css_readable,
                    html_readable, html_content, audit, validateVars >>

\* audit_documentation from the read of the HTML file to its return
ReadHtml ==
    /\ pc = "read_html"
    /\ syscalls' = Append(syscalls, << "open", argv[3] >>)
    /\ IF ~html_readable
       THEN /\ Fail(Line("html_read_error", "", 0))
            /\ UNCHANGED html_content
       ELSE /\ \E content \in
                   SeqsUpTo(HtmlElems, MaxElems - Len(css_content)) :
                   html_content' = content
            /\ pc' = "report"
            /\ audit' = audit_documentation(css_content, html_content')
            /\ UNCHANGED << out, exit_code >>
    /\ (~html_readable => UNCHANGED audit)
    /\ UNCHANGED << argv, css_exists, html_exists, css_readable,
                    html_readable, css_content, validateVars >>

ItemLines(kind, list) == [ i \in 1..Len(list) |-> Line(kind, list[i], 0) ]

\* What main() prints after audit_documentation has returned.
ReportLines(a) ==
    << Line("summary_components", "", a.component_count),
       Line("summary_sections", "", a.section_count) >>
    \o (IF Len(a.undocumented) = 0 /\ Len(a.stale_sections) = 0
        THEN << Line("passed", "", 0) >>
        ELSE (IF Len(a.undocumented) # 0
              THEN << Line("undocumented_header", "", Len(a.undocumented)) >>
                   \o ItemLines("undocumented", a.undocumented)
              ELSE << >>)
             \o (IF Len(a.stale_sections) # 0
                 THEN << Line("stale_header", "", Len(a.stale_sections)) >>
                      \o ItemLines("stale", a.stale_sections)
                 ELSE << >>)
             \o << Line("recommendations", "", 0) >>)

\* ReportExit looking at the undocumented components only.
ReportExit_UndocumentedOnly(a) == IF Len(a.undocumented) = 0 THEN 0 ELSE 1

\* The status main() ends with after the report.
ReportExit(a) ==
    IF Len(a.undocumented) = 0 /\ Len(a.stale_sections) = 0 THEN 0 ELSE 1

\* main() from the summary to its return or sys.exit(1)
Report ==
    /\ pc = "report"
    /\ out' = out \o ReportLines(audit)
    /\ exit_code' = ReportExit(audit)
    /\ pc' = "exit"
    /\ UNCHANGED << argv, css_exists, html_exists, css_readable,
                    html_readable, css_content, html_content, audit,
                    syscalls, validateVars >>

Init == AuditInit /\ ValidateIdle

Next ==
    \/ CheckArgs
    \/ CheckCssExists
    \/ CheckHtmlExists
    \/ ReadCss
    \/ ReadHtml
    \/ Report

Spec == Init /\ [][Next]_vars

-----------------------------------------------------------------------------
(* validate-css.py.                                                        *)

\* str.count(sub): occurrences of sub in s from position i on, not
\* overlapping, scanned from the left.
RECURSIVE CountFrom(_, _, _)
CountFrom(sub, s, i) ==
    IF i + Len(sub) - 1 > Len(s) THEN 0
    ELSE IF SubSeq(s, i, i + Len(sub) - 1) = sub
         THEN 1 + CountFrom(sub, s, i + Len(sub))
         ELSE CountFrom(sub, s, i + 1)

Count(sub, s) == CountFrom(sub, s, 1)

IsSpace(c) == c \in { " ", "\t", "\n", "\r", "\f" }

\* str.strip() on the left: the text from its first non-space character
RECURSIVE LStrip(_)
LStrip(s) ==
    IF Len(s) > 0 /\ IsSpace(Char(s, 1)) THEN LStrip(Tail(s)) ELSE s

\* First position at or after i that holds no white space.
RECURSIVE SkipSpace(_, _)
SkipSpace(s, i) ==
    IF i <= Len(s) /\ IsSpace(Char(s, i)) THEN SkipSpace(s, i + 1) ELSE i

\* len(re.findall(r'^:root\s*{', css_content, re.MULTILINE))
RootBlocks(content) ==
    Cardinality(
        { i \in 1..Len(content) :
            /\ (i = 1 \/ Char(content, i - 1) = "\n")
            /\ i + 4 <= Len(content)
            /\ SubSeq(content, i, i + 4) = ":root"
            /\ LET k == SkipSpace(content, i + 5)
               IN k <= Len(content) /\ Char(content, k) = "{" })

\* The issues the loop over the lines appends, lines[1..n].
RECURSIVE LineIssues(_, _)
LineIssues(lines, n) ==
    IF n = 0 THEN << >>
    ELSE LET line == lines[n]
         IN LineIssues(lines, n - 1)
            \o (IF Contains("{", line) /\ ~StartsWith(LStrip(line), "/*")
                THEN (IF Count("{", line) > 1
                      THEN << Line("multiple_opening_braces", "", n) >>
                      ELSE << >>)
                     \o (IF Contains("{{", line)
                         THEN << Line("double_opening_braces", "", n) >>
                         ELSE << >>)
                ELSE << >>)

\* The list `issues` of validate_css at its summary. The inputs of the
\* model hold neither a null byte nor a byte order mark, so the two checks
\* for them append nothing.
Issues(content) ==
    (IF Count("/*", content) # Count("*/", content)
     THEN << Line("unclosed_comments", "", 0) >> ELSE << >>)
    \o (IF Count("{", content) # Count("}", content)
        THEN << Line("unclosed_braces", "", 0) >> ELSE << >>)
    \o (IF RootBlocks(content) > 1
        THEN << Line("multiple_root_blocks", "", RootBlocks(content)) >>
        ELSE << >>)
    \o LET lines == Split(content, "\n") IN LineIssues(lines, Len(lines))
    \o (IF Contains(";;", content)
        THEN << Line("double_semicolons", "", 0) >> ELSE << >>)

\* return len(issues) == 0
validate_css(content) == Len(Issues(content)) = 0

\* Lines a validated file is made of.
ValidateLines ==
    { ".btn {", "}", ".btn {{", ".a { .b {", "margin: 0;;", "/* note {",
      "note */", ":root {" }

RECURSIVE JoinLines(_)
JoinLines(lines) ==
    IF Len(lines) = 0 THEN ""
    ELSE IF Len(lines) = 1 THEN lines[1]
    ELSE lines[1] \o "\n" \o JoinLines(Tail(lines))

ValidateContents ==
    { JoinLines(lines) : lines \in SeqsUpTo(ValidateLines, MaxLines) }

AuditIdle ==
    /\ argv = << ProgName >>
    /\ css_exists = FALSE
    /\ html_exists = FALSE
    /\ css_readable = FALSE
    /\ html_readable = FALSE
    /\ pc = "idle"
    /\ css_content = << >>
    /\ html_content = << >>
    /\ audit = NoAudit
    /\ syscalls = << >>
    /\ out = << >>
    /\ exit_code = NoExit

ValidateInit ==
    /\ v_pc = "open"
    /\ v_exists \in BOOLEAN
    /\ v_content = ""
    /\ v_issues = << >>
    /\ v_result = FALSE
    /\ v_exit = NoExit

\* with open(filepath) as f: css_content = f.read(); an exception of
\* open() is not caught and ends the process with status 1.
ValidateOpen ==
    /\ v_pc = "open"
    /\ IF ~v_exists
       THEN /\ v_exit' = 1
            /\ v_pc' = "exit"
            /\ UNCHANGED v_content
       ELSE /\ \E content \in ValidateContents : v_content' = content
            /\ v_pc' = "check"
            /\ UNCHANGED v_exit
    /\ UNCHANGED << v_exists, v_issues, v_result, auditVars >>

\* validate_css from the checks to its return
ValidateCheck ==
    /\ v_pc = "check"
    /\ v_issues' = Issues(v_content)
    /\ v_result' = validate_css(v_content)
    /\ v_pc' = "returned"
    /\ UNCHANGED << v_exists, v_content, v_exit, auditVars >>

\* The status the script ends with once validate_css has returned: the
\* call is a statement of its own and the module ends after it.
ValidateExitStatus(result) == 0

ValidateExit ==
    /\ v_pc = "returned"
    /\ v_exit' = ValidateExitStatus(v_result)
    /\ v_pc' = "exit"
    /\ UNCHANGED << v_exists, v_content, v_issues, v_result, auditVars >>

InitValidate == AuditIdle /\ ValidateInit

NextValidate ==
    \/ ValidateOpen
    \/ ValidateCheck
    \/ ValidateExit

SpecValidate == InitValidate /\ [][NextValidate]_vars

-----------------------------------------------------------------------------
(* Properties.                                                             *)

Range(list) == { list[i] : i \in 1..Len(list) }

\* audit_documentation has returned.
Audited ==
    /\ pc \in { "report", "exit" }
    /\ Len(argv) = 3
    /\ css_exists /\ css_readable
    /\ html_exists /\ html_readable

\* Text before the first hyphen.
BaseOf(name) == SubSeq(name, 1, (IF FindChar(name, "-", 1) = 0
                                 THEN Len(name)
                                 ELSE FindChar(name, "-", 1) - 1))

Occurrences(x, list) == Cardinality({ i \in 1..Len(list) : list[i] = x })

\* C1: a run of audit-documentation ends with status 0 exactly when it was
\* given two arguments naming files that exist and can be read and both the
\* undocumented list and the stale list are empty; in every other case
\* (wrong argument count, missing or unreadable file, a non-empty list) it
\* ends with status 1.
C1_ExitCode ==
    pc = "exit" =>
        exit_code =
            IF /\ Len(argv) = 3
               /\ css_exists /\ css_readable
               /\ html_exists /\ html_readable
               /\ audit.undocumented = << >>
               /\ audit.stale_sections = << >>
            THEN 0
            ELSE 1

\* A run on readable files with components and sections that passes.
C1_Witness ==
    /\ pc = "exit"
    /\ exit_code = 0
    /\ audit.component_count > 0
    /\ audit.section_count > 0

\* C2: with a CSS path that does not exist, the HTML path is never checked
\* or opened, nothing but the CSS error naming that path is printed, and
\* the run ends with status 1, whether or not the HTML file exists.
C2_MissingCss ==
    (Len(argv) = 3 /\ ~css_exists) =>
        /\ \A i \in 1..Len(syscalls) : syscalls[i][2] # argv[3]
        /\ \A i \in 1..Len(out) : out[i] = Line("css_not_found", argv[2], 0)
        /\ pc = "exit" =>
               /\ exit_code = 1
               /\ out = << Line("css_not_found", argv[2], 0) >>
               /\ syscalls = << << "exists", argv[2] >> >>

\* Both files are missing and the run has ended.
C2_Witness ==
    /\ pc = "exit"
    /\ Len(argv) = 3
    /\ ~css_exists
    /\ ~html_exists
    /\ Len(out) = 1

\* C3: validate-css ends with a non-zero status whenever its issues list is
\* not empty.
C3_ValidateExitsNonZero ==
    (v_pc = "exit" /\ v_exists /\ Len(v_issues) > 0) => v_exit # 0

\* The CSS file's matching selectors and the HTML file's div/section ids
\* are those of the example of C4 ("flex" is the one class name of the
\* model that matches no component prefix).
C4_Input ==
    /\ Range(css_content) \ { "flex" }
           = { "btn", "btn-primary", "card-internal-detail" }
    /\ { el.id : el \in { e \in Range(html_content) :
                            e.tag \in { "div", "section" } } }
           = { "buttons" }

\* C4: on that input the components are exactly btn and btn-primary, both
\* mapped to buttons, nothing is undocumented or stale, and the run ends
\* with status 0.
C4_ButtonsExample ==
    (Audited /\ C4_Input) =>
        /\ audit.components = << "btn", "btn-primary" >>
        /\ DOMAIN audit.component_to_section = { "btn", "btn-primary" }
        /\ audit.component_to_section["btn"] = "buttons"
        /\ audit.component_to_section["btn-primary"] = "buttons"
        /\ audit.undocumented = << >>
        /\ audit.stale_sections = << >>
        /\ pc = "exit" => exit_code = 0

C4_Witness == pc = "exit" /\ C4_Input

\* C5 as stated: whenever modal-dialog is a section id and modal is not a
\* component, modal-dialog is reported stale.
C5_StaleWithoutModal ==
    ( /\ Audited
      /\ InList("modal-dialog", audit.sections)
      /\ ~InList("modal", audit.components) )
        => InList("modal-dialog", audit.stale_sections)

\* C5, amended: whenever modal-dialog is a section id and neither modal nor
\* modal-dialog is a component, modal-dialog is reported stale.
C5_StaleWithoutModalOrVariant ==
    ( /\ Audited
      /\ InList("modal-dialog", audit.sections)
      /\ ~InList("modal", audit.components)
      /\ ~InList("modal-dialog", audit.components) )
        => InList("modal-dialog", audit.stale_sections)

\* The section modal-dialog is stale beside components that are mapped.
C5_Witness ==
    /\ pc = "exit"
    /\ InList("modal-dialog", audit.sections)
    /\ ~InList("modal", audit.components)
    /\ ~InList("modal-dialog", audit.components)
    /\ DOMAIN audit.component_to_section # {}
    /\ InList("modal-dialog", audit.stale_sections)

\* C6 as stated: a component whose base has no alias and is no section id
\* is listed as undocumented exactly once.
C6_UndocumentedByBase ==
    Audited =>
        \A c \in Range(audit.components) :
            ( /\ BaseOf(c) \notin DOMAIN pluralization_map
              /\ ~InList(BaseOf(c), audit.sections) )
                => Occurrences(c, audit.undocumented) = 1

\* C6, amended: a component whose base has no alias and for which neither
\* the base nor the component's full name is a section id is listed as
\* undocumented exactly once.
C6_UndocumentedByBaseAndName ==
    Audited =>
        \A c \in Range(audit.components) :
            ( /\ BaseOf(c) \notin DOMAIN pluralization_map
              /\ ~InList(BaseOf(c), audit.sections)
              /\ ~InList(c, audit.sections) )
                => Occurrences(c, audit.undocumented) = 1

\* progress-bar, repeated in the CSS, is undocumented beside sections.
C6_Witness ==
    /\ pc = "exit"
    /\ Occurrences("progress-bar", css_content) > 1
    /\ audit.section_count > 0
    /\ InList("progress-bar", audit.undocumented)

\* The list with the elements at i and i + 1 exchanged.
SwapAt(list, i) ==
    [ k \in 1..Len(list) |->
        IF k = i THEN list[i + 1] ELSE IF k = i + 1 THEN list[i] ELSE list[k] ]

\* An order on the elements of an HTML file: by id, then by tag.
ElemLess(a, b) ==
    StrLess(a.id, b.id) \/ (a.id = b.id /\ StrLess(a.tag, b.tag))

\* The inputs one exchange of neighbours, in one of the two files, away
\* from the input, the exchanged neighbours being out of order before it.
\* An exchange of two neighbours in order is the inverse of one of these,
\* made on the input it leads to, so every pair of inputs one exchange
\* apart is covered once.
SwappedInputs(css, html) ==
    { << SwapAt(css, i), html >> :
        i \in { k \in 1..(Len(css) - 1) : StrLess(css[k + 1], css[k]) } }
    \cup
    { << css, SwapAt(html, i) >> :
        i \in { k \in 1..(Len(html) - 1) : ElemLess(html[k + 1], html[k]) } }

\* C7: exchanging two neighbouring CSS rules or two neighbouring HTML
\* elements of the input (and so, by repetition, any permutation of the
\* rules and/or of the elements) changes neither the undocumented list, nor
\* the stale list, nor the two counts, nor the status the run ends with.
C7_OrderInvariance ==
    (Audited /\ pc = "exit") =>
        \A input \in SwappedInputs(css_content, html_content) :
            LET other == audit_documentation(input[1], input[2])
            IN /\ other.undocumented = audit.undocumented
               /\ other.stale_sections = audit.stale_sections
               /\ other.component_count = audit.component_count
               /\ other.section_count = audit.section_count
               /\ ReportExit(other) = exit_code

\* Two components and two sections, given out of order, all reported.
C7_Witness ==
    /\ pc = "exit"
    /\ Len(css_content) = 2 /\ StrLess(css_content[2], css_content[1])
    /\ Len(html_content) = 2
    /\ StrLess(html_content[2].id, html_content[1].id)
    /\ Len(audit.undocumented) = 2
    /\ Len(audit.stale_sections) = 2

\* C8: every component is mapped to the alias of its base if the base has
\* one and it is a section id, else to its base if that is a section id,
\* else to its own name if that is a section id, and is unmapped otherwise.
C8_CandidateOrder ==
    Audited =>
        \A c \in Range(audit.components) :
            LET S == Range(audit.sections)
                b == BaseOf(c)
                m == audit.component_to_section
            IN IF b \in DOMAIN pluralization_map /\ pluralization_map[b] \in S
               THEN c \in DOMAIN m /\ m[c] = pluralization_map[b]
               ELSE IF b \in S THEN c \in DOMAIN m /\ m[c] = b
               ELSE IF c \in S THEN c \in DOMAIN m /\ m[c] = c
               ELSE c \notin DOMAIN m

\* All three candidates of modal-dialog are section ids.
C8_Witness ==
    /\ pc = "exit"
    /\ InList("modal-dialog", audit.components)
    /\ { "modals", "modal", "modal-dialog" } \subseteq Range(audit.sections)
    /\ audit.component_to_section["modal-dialog"] = "modals"

\* C9: a class name of the CSS is a component exactly when it matches the
\* prefix pattern and is free of hyphens, or is an important variant, or
\* is a hyphenated name built on empty-state or profile-card; so the rule
\* `.empty-state {` yields the component empty-state.
C9_KeepsSecondaryBases ==
    Audited =>
        \A n \in Range(css_content) :
            InList(n, audit.components) <=>
                /\ \E i \in 1..Len(ComponentPrefixes) :
                       StartsWith(n, ComponentPrefixes[i])
                /\ \/ ~Contains("-", n)
                   \/ n \in important_variants
                   \/ \E b \in secondary_bases : StartsWith(n, b)

\* C10: a section id is stale exactly when it contains one of the prefixes
\* of the component pattern and no component is mapped to it.
C10_StaleByComponentPrefix ==
    Audited =>
        \A s \in Range(audit.sections) :
            InList(s, audit.stale_sections) <=>
                /\ \E i \in 1..Len(ComponentPrefixes) :
                       Contains(ComponentPrefixes[i], s)
                /\ s \notin DictValues(audit.component_to_section)

\* C11: the section ids are a sorted set: strictly ascending (so no id
\* occurs twice, even when the HTML repeats it), none holding a blocked
\* substring; the section count is the number of distinct ids and no
\* section is listed as stale twice.
C11_SectionsSortedSet ==
    Audited =>
        /\ \A i \in 1..Len(audit.sections), j \in 1..Len(audit.sections) :
               i < j => StrLess(audit.sections[i], audit.sections[j])
        /\ \A s \in Range(audit.sections) :
               \A k \in 1..Len(BlockedSubstrings) :
                   ~Contains(BlockedSubstrings[k], s)
        /\ audit.section_count = Cardinality(Range(audit.sections))
        /\ \A s \in Range(audit.stale_sections) :
               Occurrences(s, audit.stale_sections) = 1

\* C12 as stated: no section id is the target of two distinct components,
\* and the two dicts are inverse of each other.
C12_OneToOne ==
    Audited =>
        LET m == audit.component_to_section
            r == audit.section_to_component
        IN /\ \A c1 \in DOMAIN m, c2 \in DOMAIN m : m[c1] = m[c2] => c1 = c2
           /\ \A c \in DOMAIN m : m[c] \in DOMAIN r /\ r[m[c]] = c
           /\ \A s \in DOMAIN r : r[s] \in DOMAIN m /\ m[r[s]] = s

\* C12, amended: every mapped component has one section id, which is an
\* extracted section; section_to_component is defined exactly on the
\* sections some component is mapped to and gives, for each, the last in
\* sorted order of the components mapped to it (several components may
\* share a section).
C12_ManyToOne ==
    Audited =>
        LET m == audit.component_to_section
            r == audit.section_to_component
        IN /\ DOMAIN m \subseteq Range(audit.components)
           /\ \A c \in DOMAIN m : InList(m[c], audit.sections)
           /\ DOMAIN r = { m[c] : c \in DOMAIN m }
           /\ \A s \in DOMAIN r :
                  /\ r[s] \in DOMAIN m
                  /\ m[r[s]] = s
                  /\ \A c \in DOMAIN m :
                         m[c] = s => (c = r[s] \/ StrLess(c, r[s]))

\* btn and btn-primary share the section buttons.
C12_Witness ==
    /\ pc = "exit"
    /\ { "btn", "btn-primary" } \subseteq DOMAIN audit.component_to_section
    /\ audit.component_to_section["btn"] = "buttons"
    /\ audit.component_to_section["btn-primary"] = "buttons"
    /\ audit.section_to_component["buttons"] = "btn-primary"

=============================================================================
